---- MODULE Spec2Model ----
(***************************************************************************)
(* Model of bio_seq_v1: the two `sequence` classes (fasta.py and stats.py) *)
(* and the command-line entry point (cli.py).                              *)
(*                                                                         *)
(* A Python str is modelled as a sequence of one-character strings.        *)
(***************************************************************************)
EXTENDS Integers, Sequences, FiniteSets, TLC

(***************************************************************************)
(* Bounds of the model.                                                    *)
(***************************************************************************)
\* longest raw residue string over the whole character universe
MaxLen == 2
\* longest raw residue string over the small character universe CoreChars
MaxCoreLen == 4
\* how many times a reverse complement is fed back into the constructor
MaxHops == 1
\* longest input text, in lines
MaxLines == 5

(***************************************************************************)
(* Characters and strings.                                                 *)
(***************************************************************************)
\* class attribute `valid`, a str
valid == <<"A","C","G","T","U","N","R","Y","S","W","K","M","B","D","H","V","-",".">>

\* revcomp_dict with the entry of C mistyped
revcomp_dict_C_to_C ==
    ("A" :> "T") @@ ("T" :> "A") @@ ("G" :> "C") @@ ("C" :> "C") @@ ("U" :> "A") @@
    ("R" :> "Y") @@ ("Y" :> "R") @@ ("S" :> "S") @@ ("W" :> "W") @@
    ("K" :> "M") @@ ("M" :> "K") @@ ("B" :> "V") @@ ("D" :> "H") @@
    ("H" :> "D") @@ ("V" :> "B") @@ ("N" :> "N")

\* revcomp_dict with the entry of V mistyped
revcomp_dict_V_to_D ==
    ("A" :> "T") @@ ("T" :> "A") @@ ("G" :> "C") @@ ("C" :> "G") @@ ("U" :> "A") @@
    ("R" :> "Y") @@ ("Y" :> "R") @@ ("S" :> "S") @@ ("W" :> "W") @@
    ("K" :> "M") @@ ("M" :> "K") @@ ("B" :> "V") @@ ("D" :> "H") @@
    ("H" :> "D") @@ ("V" :> "D") @@ ("N" :> "N")

\* class attribute `revcomp_dict`
revcomp_dict ==
    ("A" :> "T") @@ ("T" :> "A") @@ ("G" :> "C") @@ ("C" :> "G") @@ ("U" :> "A") @@
    ("R" :> "Y") @@ ("Y" :> "R") @@ ("S" :> "S") @@ ("W" :> "W") @@
    ("K" :> "M") @@ ("M" :> "K") @@ ("B" :> "V") @@ ("D" :> "H") @@
    ("H" :> "D") @@ ("V" :> "B") @@ ("N" :> "N")

\* set(s) of a str
ToSet(s) == {s[i] : i \in DOMAIN s}

\* lower-case letters and characters outside `valid` that raw inputs may hold
LowerChars == {"a", "g", "n", "z"}
OtherChars == {"Z", "X"}
Chars == ToSet(valid) \cup LowerChars \cup OtherChars
CoreChars == {"A", "C", "G", "T", "N", "g"}

\* str.upper() on one character of the universe
UpperChar(c) ==
    CASE c = "a" -> "A"
      [] c = "g" -> "G"
      [] c = "n" -> "N"
      [] c = "z" -> "Z"
      [] OTHER -> c

\* str.upper()
Upper(s) == [i \in DOMAIN s |-> UpperChar(s[i])]

\* s[::-1]
Reverse(s) == [i \in DOMAIN s |-> s[Len(s) + 1 - i]]

\* str.count(b) for a one-character b
RECURSIVE Count(_, _)
Count(s, b) ==
    IF s = <<>> THEN 0
    ELSE (IF Head(s) = b THEN 1 ELSE 0) + Count(Tail(s), b)

\* all strings over S of length at most n
Strings(S, n) == UNION {[1..k -> S] : k \in 0..n}

\* the raw residue strings the constructor is given
RawInputs == Strings(Chars, MaxLen) \cup Strings(CoreChars, MaxCoreLen)
Ids == {"x", "seq1"}
Impls == {"fasta", "stats"}

(***************************************************************************)
(* Outcomes of a call: a returned value or a raised exception.             *)
(***************************************************************************)
Return(op, v) == [op |-> op, kind |-> "return", exc |-> "", value |-> v]
Raise(op, exc, v) == [op |-> op, kind |-> "raise", exc |-> exc, value |-> v]
NoOutcome == [op |-> "", kind |-> "", exc |-> "", value |-> <<>>]
NoObject == [id |-> "", sequence |-> <<>>]

(***************************************************************************)
(* class sequence (fasta.py and stats.py)                                  *)
(***************************************************************************)
\* invalid_chars = set(sequence.upper()) - set(self.valid)
InvalidCharsNoUpper(sequence) == ToSet(sequence) \ ToSet(valid)
InvalidChars(sequence) == ToSet(Upper(sequence)) \ ToSet(valid)

\* sequence.__init__ : the same statements in both modules.  The outcome of a
\* successful construction carries the new object.
SequenceInitKeepCase(id, sequence) ==
    IF sequence = <<>> THEN Raise("__init__", "ValueError", [what |-> "empty", id |-> id])
    ELSE IF InvalidChars(sequence) # {}
         THEN Raise("__init__", "ValueError",
                    [what |-> "invalid", id |-> id, chars |-> InvalidChars(sequence)])
         ELSE Return("__init__", [id |-> id, sequence |-> sequence])
SequenceInit(id, sequence) ==
    IF sequence = <<>> THEN Raise("__init__", "ValueError", [what |-> "empty", id |-> id])
    ELSE IF InvalidChars(sequence) # {}
         THEN Raise("__init__", "ValueError",
                    [what |-> "invalid", id |-> id, chars |-> InvalidChars(sequence)])
         ELSE Return("__init__", [id |-> id, sequence |-> Upper(sequence)])

\* sequence_lengths (fasta.py) / sequence_length (stats.py)
SequenceLength(self) == Len(self.sequence)

\* base_count : the loop over self.sequence, counts and whether a warning was issued
RECURSIVE BaseCountLoop(_, _, _)
BaseCountLoop(rest, counts, warned) ==
    IF rest = <<>> THEN [counts |-> counts, warned |-> warned]
    ELSE IF Head(rest) \in DOMAIN counts
         THEN BaseCountLoop(Tail(rest),
                            [counts EXCEPT ![Head(rest)] = @ + 1], warned)
         ELSE BaseCountLoop(Tail(rest), counts, TRUE)
BaseCountOnlyPresent(self) ==
    BaseCountLoop(self.sequence, [b \in ToSet(self.sequence) |-> 0], FALSE)
BaseCount(self) ==
    BaseCountLoop(self.sequence, [b \in ToSet(valid) |-> 0], FALSE)

\* sum(self.sequence.count(b) for b in self.valid)
RECURSIVE SumCounts(_, _)
SumCounts(s, bs) ==
    IF bs = <<>> THEN 0 ELSE Count(s, Head(bs)) + SumCounts(s, Tail(bs))

\* A float result ((g+c)/total)*100 is kept as the exact fraction
\* (g+c)*100 / total; 0.0 is 0/1.
Fraction(n, d) == [num |-> n, den |-> d]

\* gc_content of fasta.py
FastaGcTotal(self) == SumCounts(self.sequence, valid)
FastaGcContent(self) ==
    IF self.sequence = <<>> THEN Return("gc_content", [branch |-> "empty", frac |-> Fraction(0, 1)])
    ELSE LET g == Count(self.sequence, "G")
             c == Count(self.sequence, "C")
             total == FastaGcTotal(self)
         IN  IF total = 0
             THEN Raise("gc_content", "ValueError", [branch |-> "total0", frac |-> Fraction(0, 1)])
             ELSE Return("gc_content", [branch |-> "ratio", frac |-> Fraction((g + c) * 100, total)])

\* gc_content of stats.py
StatsGcContentOnlyG(self) ==
    IF self.sequence = <<>> THEN Return("gc_content", [branch |-> "empty", frac |-> Fraction(0, 1)])
    ELSE LET g == Count(self.sequence, "G")
             total == SequenceLength(self)
         IN  Return("gc_content", [branch |-> "ratio", frac |-> Fraction(g * 100, total)])
StatsGcContent(self) ==
    IF self.sequence = <<>> THEN Return("gc_content", [branch |-> "empty", frac |-> Fraction(0, 1)])
    ELSE LET g == Count(self.sequence, "G")
             c == Count(self.sequence, "C")
             total == SequenceLength(self)
         IN  Return("gc_content", [branch |-> "ratio", frac |-> Fraction((g + c) * 100, total)])

\* rev_complement of fasta.py : the loop over the reversed string
RECURSIVE FastaComplementLoop(_, _, _)
FastaComplementLoop(self, rest, complement) ==
    IF rest = <<>> THEN Return("rev_complement", complement)
    ELSE IF Head(rest) \in DOMAIN revcomp_dict
         THEN FastaComplementLoop(self, Tail(rest),
                                  Append(complement, revcomp_dict[Head(rest)]))
         ELSE Raise("rev_complement", "ValueError", <<Head(rest)>>)
FastaRevComplementNoReverse(self) == FastaComplementLoop(self, self.sequence, <<>>)
FastaRevComplement(self) == FastaComplementLoop(self, Reverse(self.sequence), <<>>)

\* rev_complement of stats.py : the generator is filtered by `b in self.valid`
\* and indexes revcomp_dict, so a symbol of `valid` without an entry raises
\* KeyError
RECURSIVE StatsComplementLoop(_, _, _)
StatsComplementLoop(self, rest, complement) ==
    IF rest = <<>> THEN Return("rev_complement", complement)
    ELSE IF Head(rest) \in ToSet(valid)
         THEN IF Head(rest) \in DOMAIN revcomp_dict
              THEN StatsComplementLoop(self, Tail(rest),
                                       Append(complement, revcomp_dict[Head(rest)]))
              ELSE Raise("rev_complement", "KeyError", <<Head(rest)>>)
         ELSE StatsComplementLoop(self, Tail(rest), complement)
\* a generator filtered by `b in self.revcomp_dict` instead, which drops the symbol
RECURSIVE StatsDropLoop(_, _, _)
StatsDropLoop(self, rest, complement) ==
    IF rest = <<>> THEN Return("rev_complement", complement)
    ELSE IF Head(rest) \in DOMAIN revcomp_dict
         THEN StatsDropLoop(self, Tail(rest), Append(complement, revcomp_dict[Head(rest)]))
         ELSE StatsDropLoop(self, Tail(rest), complement)
StatsRevComplementDrop(self) == StatsDropLoop(self, Reverse(self.sequence), <<>>)
StatsRevComplement(self) == StatsComplementLoop(self, Reverse(self.sequence), <<>>)

GcContent(impl, self) ==
    IF impl = "fasta" THEN FastaGcContent(self) ELSE StatsGcContent(self)
RevComplement(impl, self) ==
    IF impl = "fasta" THEN FastaRevComplement(self) ELSE StatsRevComplement(self)

\* the constructor and base_count of fasta.py are the statements of stats.py
FastaSequenceInit(id, sequence) == SequenceInit(id, sequence)
FastaBaseCount(self) == BaseCount(self)
Construct(impl, id, sequence) ==
    IF impl = "fasta" THEN FastaSequenceInit(id, sequence) ELSE SequenceInit(id, sequence)
CountBases(impl, self) ==
    IF impl = "fasta" THEN FastaBaseCount(self) ELSE BaseCount(self)

(***************************************************************************)
(* State.                                                                  *)
(*   impl, id, raw : the class in use and the constructor's arguments      *)
(*   self          : the constructed object                                *)
(*   outcome       : what the last call returned or raised                 *)
(*   orig, hops    : residues of the first object, and how many times a    *)
(*                   reverse complement was made into a new object         *)
(*   pc            : "new", "ready" (object alive) or "failed"             *)
(*   text, args    : lines of the input file and the command-line flags    *)
(*   sequences     : what the parser returned                              *)
(*   mpc           : the statement main() is at, or how it ended           *)
(*   log           : routines entered and lines printed, in order          *)
(*   failure       : the exception that ended main()                       *)
(***************************************************************************)
VARIABLES impl, id, raw, self, outcome, orig, hops, pc,
          text, args, sequences, mpc, log, failure

classVars == <<impl, id, raw, self, outcome, orig, hops, pc>>
cliVars == <<text, args, sequences, mpc, log, failure>>
vars == <<impl, id, raw, self, outcome, orig, hops, pc,
          text, args, sequences, mpc, log, failure>>

Flags == {"length", "gc", "revcomp", "basecount", "summary"}
NoArgs == [f \in Flags |-> FALSE]

ClassIdle ==
    /\ impl = "stats" /\ id = "" /\ raw = <<>> /\ self = NoObject
    /\ outcome = NoOutcome /\ orig = <<>> /\ hops = 0 /\ pc = "idle"
CliIdle ==
    /\ text = <<>> /\ args = NoArgs /\ sequences = <<>> /\ mpc = "idle" /\ log = <<>>
    /\ failure = NoOutcome

(***************************************************************************)
(* The life of one sequence object.                                        *)
(***************************************************************************)
Init ==
    /\ impl \in Impls
    /\ id \in Ids
    /\ raw \in RawInputs
    /\ self = NoObject
    /\ outcome = NoOutcome
    /\ orig = <<>>
    /\ hops = 0
    /\ pc = "new"
    /\ CliIdle

\* sequence(id, raw)
New ==
    /\ pc = "new"
    /\ LET out == Construct(impl, id, raw)
       IN  /\ outcome' = out
           /\ IF out.kind = "return"
              THEN /\ self' = out.value
                   /\ orig' = out.value.sequence
                   /\ pc' = "ready"
              ELSE /\ pc' = "failed"
                   /\ UNCHANGED <<self, orig>>
    /\ UNCHANGED <<impl, id, raw, hops>>
    /\ UNCHANGED cliVars

\* self.sequence_lengths() / self.sequence_length()
CallSequenceLength ==
    /\ pc = "ready"
    /\ outcome' = Return("sequence_length", SequenceLength(self))
    /\ UNCHANGED <<impl, id, raw, self, orig, hops, pc>>
    /\ UNCHANGED cliVars

\* self.base_count()
CallBaseCount ==
    /\ pc = "ready"
    /\ outcome' = Return("base_count", CountBases(impl, self))
    /\ UNCHANGED <<impl, id, raw, self, orig, hops, pc>>
    /\ UNCHANGED cliVars

\* self.gc_content()
CallGcContent ==
    /\ pc = "ready"
    /\ outcome' = GcContent(impl, self)
    /\ UNCHANGED <<impl, id, raw, self, orig, hops, pc>>
    /\ UNCHANGED cliVars

\* self.rev_complement()
CallRevComplement ==
    /\ pc = "ready"
    /\ outcome' = RevComplement(impl, self)
    /\ UNCHANGED <<impl, id, raw, self, orig, hops, pc>>
    /\ UNCHANGED cliVars

\* sequence(id, <the reverse complement just returned>)
NewFromRevComplement ==
    /\ pc = "ready"
    /\ hops < MaxHops
    /\ outcome.op = "rev_complement"
    /\ outcome.kind = "return"
    /\ LET out == Construct(impl, id, outcome.value)
       IN  /\ outcome' = out
           /\ raw' = outcome.value
           /\ hops' = hops + 1
           /\ IF out.kind = "return"
              THEN /\ self' = out.value
                   /\ pc' = "ready"
              ELSE /\ pc' = "failed"
                   /\ UNCHANGED self
    /\ UNCHANGED <<impl, id, orig>>
    /\ UNCHANGED cliVars

Next ==
    \/ New
    \/ CallSequenceLength
    \/ CallBaseCount
    \/ CallGcContent
    \/ CallRevComplement
    \/ NewFromRevComplement

Spec == Init /\ [][Next]_vars

(***************************************************************************)
(* Properties of the sequence classes, checked under Spec.                 *)
(***************************************************************************)
\* the Alphabet of the specification
Alphabet == {"A","C","G","T","U","N","R","Y","S","W","K","M","B","D","H","V","-","."}
GapSymbols == {"-", "."}

\* the out-of-alphabet symbols of the upper-cased s
Offending(s) == {UpperChar(s[i]) : i \in DOMAIN s} \ Alphabet

\* number of positions of s holding a symbol of S
Occurrences(s, S) == Cardinality({i \in DOMAIN s : s[i] \in S})

RECURSIVE SumValues(_, _)
SumValues(f, S) ==
    IF S = {} THEN 0
    ELSE LET b == CHOOSE x \in S : TRUE IN f[b] + SumValues(f, S \ {b})

Constructed == outcome.op = "__init__"
RaisedInvalid ==
    /\ outcome.kind = "raise"
    /\ outcome.exc = "ValueError"
    /\ outcome.value.what = "invalid"
RaisedEmpty ==
    /\ outcome.kind = "raise"
    /\ outcome.exc = "ValueError"
    /\ outcome.value.what = "empty"

\* C1: for a non-empty raw string the constructor (of either class) raises the
\* invalid-characters error exactly when the upper-cased string has a symbol
\* outside the Alphabet, and the error carries every such symbol.
C1_InvalidCharacters ==
    (Constructed /\ raw # <<>>) =>
        /\ RaisedInvalid <=> (Offending(raw) # {})
        /\ RaisedInvalid => (outcome.value.chars = Offending(raw) /\ outcome.value.id = id)

\* C1 witness: a construction that failed with two offending symbols, one of
\* them given in lower case
C1_Witness ==
    /\ Constructed
    /\ RaisedInvalid
    /\ raw = <<"z", "X">>
    /\ outcome.value.chars = {"Z", "X"}

C3_BaseCount ==
    outcome.op = "base_count" =>
        /\ outcome.kind = "return"
        /\ DOMAIN outcome.value.counts = Alphabet
        /\ Cardinality(DOMAIN outcome.value.counts) = 18
        /\ \A b \in Alphabet : outcome.value.counts[b] = Occurrences(self.sequence, {b})
        /\ SumValues(outcome.value.counts, Alphabet) = SequenceLength(self)
        /\ ~outcome.value.warned

\* C3 witness: a count with a repeated symbol and zero entries
C3_Witness ==
    /\ outcome.op = "base_count"
    /\ self.sequence = <<"G", "G", "A", "N">>
    /\ outcome.value.counts["G"] = 2
    /\ outcome.value.counts["T"] = 0

\* C4: gc_content of both classes returns (count of G + count of C) * 100 /
\* length, a value in [0, 100]; the total that fasta.py sums over the symbols
\* of `valid` is the length, so neither the 0.0 branch nor the total == 0
\* error is taken.
C4_GcContent ==
    /\ outcome.op = "gc_content" =>
          /\ outcome.kind = "return"
          /\ outcome.value.branch = "ratio"
          /\ outcome.value.frac.den = Len(self.sequence)
          /\ outcome.value.frac.num = 100 * Occurrences(self.sequence, {"G", "C"})
          /\ 0 <= outcome.value.frac.num
          /\ outcome.value.frac.num <= 100 * outcome.value.frac.den
    /\ pc = "ready" =>
          /\ FastaGcTotal(self) = SequenceLength(self)
          /\ FastaGcContent(self) = StatsGcContent(self)

\* C4 witness: a GC content of 50 percent, asked of the fasta.py class
C4_Witness ==
    /\ outcome.op = "gc_content"
    /\ impl = "fasta"
    /\ self.sequence = <<"G", "A", "C", "T">>
    /\ outcome.value.frac = Fraction(200, 4)

SecondRevComplement ==
    /\ outcome.op = "rev_complement"
    /\ hops = 1

\* C5: for residues over A, C, G, T, N, the reverse complement of the object
\* built from the reverse complement is the original residues.
C5_DoubleRevCompCore ==
    (SecondRevComplement /\ ToSet(orig) \subseteq {"A", "C", "G", "T", "N"}) =>
        /\ outcome.kind = "return"
        /\ outcome.value = orig

\* C5 witness: the second reverse complement of a non-palindromic string
C5_Witness ==
    /\ SecondRevComplement
    /\ orig = <<"A", "C", "N", "T">>
    /\ self.sequence = <<"A", "N", "G", "T">>
    /\ outcome.kind = "return"

\* C6 as claimed: over the whole Alphabet, whenever the second reverse
\* complement is returned it is the original residues.
C6_DoubleRevCompFull ==
    (SecondRevComplement /\ outcome.kind = "return") => outcome.value = orig

\* C6 amended: for residues holding none of U, '-', '.', the reverse
\* complement of the object built from the reverse complement is returned and
\* is the original residues; every complement-map entry but U -> A is its own
\* inverse.
C6_DoubleRevCompNoU ==
    /\ (SecondRevComplement /\ ToSet(orig) \cap {"U", "-", "."} = {}) =>
          /\ outcome.kind = "return"
          /\ outcome.value = orig
    /\ (SecondRevComplement /\ outcome.kind = "return" /\ "U" \in ToSet(orig)) =>
          outcome.value # orig
    /\ pc = "ready" =>
          \A i \in DOMAIN self.sequence :
              (self.sequence[i] \in DOMAIN revcomp_dict /\ self.sequence[i] # "U") =>
                  revcomp_dict[revcomp_dict[self.sequence[i]]] = self.sequence[i]

\* C6 witness: the second reverse complement of ambiguity codes
C6_Witness ==
    /\ SecondRevComplement
    /\ orig = <<"B", "K">>
    /\ self.sequence = <<"M", "V">>
    /\ outcome.kind = "return"

NoGap(s) == ToSet(s) \cap GapSymbols = {}

\* C7: for residues r of length n without '-' and '.', rev_complement of both
\* classes returns a string of length n whose i-th symbol is the complement of
\* r[n-1-i] (positions counted from 0).
C7_RevComplement ==
    (outcome.op = "rev_complement" /\ NoGap(self.sequence)) =>
        /\ outcome.kind = "return"
        /\ Len(outcome.value) = Len(self.sequence)
        /\ \A i \in 0..(Len(self.sequence) - 1) :
              outcome.value[i + 1] = revcomp_dict[self.sequence[(Len(self.sequence) - 1 - i) + 1]]

\* C7 witness: ACGN gives NCGT
C7_Witness ==
    /\ outcome.op = "rev_complement"
    /\ self.sequence = <<"A", "C", "G", "N">>
    /\ outcome.value = <<"N", "C", "G", "T">>

Marker == ">"
Whitespace == {" "}

IsMarkerLine(line) == line # <<>> /\ line[1] = Marker

RECURSIVE LStrip(_)
LStrip(s) ==
    IF s # <<>> /\ Head(s) \in Whitespace THEN LStrip(Tail(s)) ELSE s
\* str.strip()
Strip(s) == Reverse(LStrip(Reverse(LStrip(s))))

\* the open record (if any) is constructed and appended to the records
Flush(open, curId, curSeq, records) ==
    IF ~open THEN Return("fasta_parser", records)
    ELSE LET out == SequenceInit(curId, curSeq)
         IN  IF out.kind = "raise" THEN out
             ELSE Return("fasta_parser", Append(records, out.value))

RECURSIVE ParseLoop(_, _, _, _, _)
ParseLoop(lines, open, curId, curSeq, records) ==
    IF lines = <<>> THEN Flush(open, curId, curSeq, records)
    ELSE IF IsMarkerLine(Head(lines))
         THEN LET done == Flush(open, curId, curSeq, records)
              IN  IF done.kind = "raise" THEN done
                  ELSE ParseLoop(Tail(lines), TRUE, Strip(Tail(Head(lines))), <<>>,
                                 done.value)
         ELSE IF open
              THEN ParseLoop(Tail(lines), open, curId, curSeq \o Head(lines), records)
              ELSE ParseLoop(Tail(lines), open, curId, curSeq, records)

\* a parser that forgets the record still open at the end of the input
RECURSIVE ParseLoopNoFinalFlush(_, _, _, _, _)
ParseLoopNoFinalFlush(lines, open, curId, curSeq, records) ==
    IF lines = <<>> THEN Return("fasta_parser", records)
    ELSE IF IsMarkerLine(Head(lines))
         THEN LET done == Flush(open, curId, curSeq, records)
              IN  IF done.kind = "raise" THEN done
                  ELSE ParseLoopNoFinalFlush(Tail(lines), TRUE, Strip(Tail(Head(lines))),
                                             <<>>, done.value)
         ELSE IF open
              THEN ParseLoopNoFinalFlush(Tail(lines), open, curId, curSeq \o Head(lines),
                                         records)
              ELSE ParseLoopNoFinalFlush(Tail(lines), open, curId, curSeq, records)
FastaParserNoFinalFlush(lines) == ParseLoopNoFinalFlush(lines, FALSE, <<>>, <<>>, <<>>)

FastaParser(lines) == ParseLoop(lines, FALSE, <<>>, <<>>, <<>>)

\* the lines an input file is made of
Lines ==
    { <<">", "a">>, <<">", " ", "b", " ">>, <<"A", "C">>, <<"g", "-">>, <<"Z">>, <<>> }
Texts == Strings(Lines, MaxLines)

(***************************************************************************)
(* cli.py.  The report routines are given by what they enter and print, in *)
(* order; tabulate's rendering of a table is left out and a table is       *)
(* printed as its rows.  The objects are used through the method names of  *)
(* stats.py, the class cli.py imports.                                     *)
(***************************************************************************)
Enter(routine) == [ev |-> "call", what |-> routine]
Stdout(what) == [ev |-> "print", what |-> what]
Done(events) == [events |-> events, raised |-> NoOutcome]

\* print_sequence_lengths_formatted
PrintSequenceLengthsFormatted(seqs) ==
    Done(<< Enter("print_sequence_lengths_formatted"),
            Stdout([i \in DOMAIN seqs |-> <<seqs[i].id, SequenceLength(seqs[i])>>]) >>)

\* print_gc_content_table
PrintGcContentTable(seqs) ==
    Done(<< Enter("print_gc_content_table"),
            Stdout([i \in DOMAIN seqs |-> <<seqs[i].id, StatsGcContent(seqs[i]).value.frac>>]) >>)

\* print_revcomp : the loop stops at the first object whose rev_complement raises
RECURSIVE PrintRevcompLoop(_, _)
PrintRevcompLoop(seqs, events) ==
    IF seqs = <<>> THEN Done(events)
    ELSE LET s == Head(seqs)
             header == Append(events, Stdout(<<">", s.id, " reverse complement">>))
             rc == StatsRevComplement(s)
         IN  IF rc.kind = "raise"
             THEN [events |-> header, raised |-> rc]
             ELSE PrintRevcompLoop(Tail(seqs),
                                   header \o << Stdout(rc.value), Stdout("------------------------------") >>)
PrintRevcomp(seqs) == PrintRevcompLoop(seqs, << Enter("print_revcomp") >>)

\* print_base_count
PrintBaseCount(seqs) ==
    Done(<< Enter("print_base_count"),
            Stdout([i \in DOMAIN seqs |->
                      <<seqs[i].id>> \o
                      [k \in DOMAIN valid |-> BaseCount(seqs[i]).counts[valid[k]]]]) >>)

\* print_summary
PrintSummary(seqs) ==
    Done(<< Enter("print_summary"), Stdout("SEQUENCE LENGTHS") >>
         \o PrintSequenceLengthsFormatted(seqs).events
         \o << Stdout(""), Stdout("GC CONTENT") >>
         \o PrintGcContentTable(seqs).events
         \o << Stdout(""), Stdout("BASE COMPOSITION") >>
         \o PrintBaseCount(seqs).events)

InitCli ==
    /\ ClassIdle
    /\ text \in Texts
    /\ args \in [Flags -> BOOLEAN]
    /\ sequences = <<>>
    /\ mpc = "parse"
    /\ log = <<>>
    /\ failure = NoOutcome

\* sequences = fasta_parser(args.file)
MainParse ==
    /\ mpc = "parse"
    /\ LET out == FastaParser(text)
       IN  IF out.kind = "raise"
           THEN /\ failure' = out
                /\ mpc' = "raised"
                /\ UNCHANGED sequences
           ELSE /\ sequences' = out.value
                /\ mpc' = "default"
                /\ UNCHANGED failure
    /\ UNCHANGED <<text, args, log>>
    /\ UNCHANGED classVars

\* if not any([...]): print_summary(sequences); exit()
MainDefault ==
    /\ mpc = "default"
    /\ IF \A f \in Flags : ~args[f]
       THEN /\ log' = log \o PrintSummary(sequences).events
            /\ mpc' = "exited"
       ELSE /\ mpc' = "check"
            /\ UNCHANGED log
    /\ UNCHANGED <<text, args, sequences, failure>>
    /\ UNCHANGED classVars

\* if not sequences: raise ValueError("No sequences found in FASTA file")
MainCheck ==
    /\ mpc = "check"
    /\ IF sequences = <<>>
       THEN /\ failure' = Raise("main", "ValueError", "No sequences found in FASTA file")
            /\ mpc' = "raised"
       ELSE /\ mpc' = "length"
            /\ UNCHANGED failure
    /\ UNCHANGED <<text, args, sequences, log>>
    /\ UNCHANGED classVars

\* one `if args.<flag>: <report>(sequences); print()` statement of main
Report(at, flag, run, next) ==
    /\ mpc = at
    /\ IF args[flag]
       THEN IF run.raised.kind = "raise"
            THEN /\ log' = log \o run.events
                 /\ failure' = run.raised
                 /\ mpc' = "raised"
            ELSE /\ log' = log \o run.events \o << Stdout("") >>
                 /\ mpc' = next
                 /\ UNCHANGED failure
       ELSE /\ mpc' = next
            /\ UNCHANGED <<log, failure>>
    /\ UNCHANGED <<text, args, sequences>>
    /\ UNCHANGED classVars

MainLength == Report("length", "length", PrintSequenceLengthsFormatted(sequences), "gc")
MainGc == Report("gc", "gc", PrintGcContentTable(sequences), "revcomp")
MainRevcomp == Report("revcomp", "revcomp", PrintRevcomp(sequences), "basecount")
MainBasecount == Report("basecount", "basecount", PrintBaseCount(sequences), "summary")

\* if args.summary: print_summary(sequences); exit()
MainSummary ==
    /\ mpc = "summary"
    /\ IF args["summary"]
       THEN /\ log' = log \o PrintSummary(sequences).events
            /\ mpc' = "exited"
       ELSE /\ mpc' = "returned"
            /\ UNCHANGED log
    /\ UNCHANGED <<text, args, sequences, failure>>
    /\ UNCHANGED classVars

NextCli ==
    \/ MainParse
    \/ MainDefault
    \/ MainCheck
    \/ MainLength
    \/ MainGc
    \/ MainRevcomp
    \/ MainBasecount
    \/ MainSummary

SpecCli == InitCli /\ [][NextCli]_vars

\* the parser alone, on every text
InitParse ==
    /\ ClassIdle
    /\ text \in Texts
    /\ args = NoArgs
    /\ sequences = <<>>
    /\ mpc = "parse"
    /\ log = <<>>
    /\ failure = NoOutcome

SpecParse == InitParse /\ [][MainParse]_vars

(***************************************************************************)
(* Properties of the parser (SpecParse) and of main() (SpecCli).           *)
(***************************************************************************)
MarkerLines == {i \in DOMAIN text : text[i] # <<>> /\ text[i][1] = ">"}

\* the k-th marker line, and the line after the last line of its record
KthMarker(k) ==
    CHOOSE m \in MarkerLines : Cardinality({j \in MarkerLines : j <= m}) = k
RecordEnd(m) ==
    LET later == {j \in MarkerLines : j > m} \cup {Len(text) + 1}
    IN  CHOOSE e \in later : \A j \in later : e <= j

\* lines from..to-1 of the text, joined
RECURSIVE Joined(_, _)
Joined(from, to) ==
    IF from >= to THEN <<>> ELSE text[from] \o Joined(from + 1, to)
RecordText(m) == Joined(m + 1, RecordEnd(m))

\* s without its leading and trailing blanks
Trimmed(s) ==
    LET inked == {i \in DOMAIN s : s[i] # " "}
    IN  IF inked = {} THEN <<>>
        ELSE SubSeq(s, CHOOSE a \in inked : \A i \in inked : a <= i,
                       CHOOSE b \in inked : \A i \in inked : b >= i)

AllRecordsValid ==
    \A m \in MarkerLines : RecordText(m) # <<>> /\ Offending(RecordText(m)) = {}

ParseEnded == mpc \notin {"idle", "parse"}
ParseReturned == ParseEnded /\ failure.op # "__init__"

\* C8: when every record of the text is valid the parser returns one sequence
\* per marker line, in the order of the marker lines, each with the trimmed
\* remainder of its marker line as identifier and its following non-marker
\* lines, joined and upper-cased by the constructor, as residues; lines before
\* the first marker add nothing.
C8_ParserOrder ==
    (ParseEnded /\ AllRecordsValid) =>
        /\ ParseReturned
        /\ Len(sequences) = Cardinality(MarkerLines)
        /\ \A k \in DOMAIN sequences :
              /\ sequences[k].id = Trimmed(Tail(text[KthMarker(k)]))
              /\ Len(sequences[k].sequence) = Len(RecordText(KthMarker(k)))
              /\ \A i \in DOMAIN sequences[k].sequence :
                    sequences[k].sequence[i] = UpperChar(RecordText(KthMarker(k))[i])

\* C8 witness: a line before the first marker, then two records
C8_Witness ==
    /\ ParseReturned
    /\ text = << <<"Z">>, <<">", " ", "b", " ">>, <<"g", "-">>, <<">", "a">>, <<"A", "C">> >>
    /\ sequences = << [id |-> <<"b">>, sequence |-> <<"G", "-">>],
                      [id |-> <<"a">>, sequence |-> <<"A", "C">>] >>

\* C10 as claimed: when the parsed collection is empty, main() ends with the
\* 'No sequences found' error, and no report routine is entered and nothing is
\* printed, whatever the flags.
C10_NoSequencesFirst ==
    (ParseReturned /\ sequences = <<>>) =>
        /\ log = <<>>
        /\ mpc \in {"exited", "returned", "raised"} =>
              /\ mpc = "raised"
              /\ failure = Raise("main", "ValueError", "No sequences found in FASTA file")

====
